---- MODULE Spec2Model ----
(***************************************************************************)
(* Two-move chess backend (src/backend/application.py).                    *)
(*                                                                         *)
(* The module state game_state = {board, moves_left} is guarded by         *)
(* game_lock, a threading.Lock (not re-entrant).  Three request handlers   *)
(* run on concurrent threads: get_game_state, new_game and make_move.      *)
(* The chess library is stood in for by a small rules engine with the same *)
(* interface (legal_moves, is_capture, push, is_game_over, result, fen,   *)
(* Move.from_uci): pieces on the a-file that step one square and capture   *)
(* by displacement.                                                        *)
(***************************************************************************)
EXTENDS Integers, Sequences, FiniteSets, TLC

\* ---------------------------------------------------------------- bounds
BoardLen == 6      \* ranks of the a-file the small rules engine plays on
DrawClock == 3     \* plies without a capture after which the engine declares a draw
MaxCalls == 2      \* requests issued in one behaviour
MaxPlies == 8      \* depth of legal play from which InitPlay draws MatchState

Threads == {"t1", "t2"}
NoThread == "none"

VARIABLES board, moves_left, lock, pc, req, loc, result, calls, pre, ng, conc

vars == <<board, moves_left, lock, pc, req, loc, result, calls, pre, ng, conc>>

\* ------------------------------------------------- rules engine: notation
WHITE == TRUE
BLACK == FALSE

FILE_NAMES == <<"a", "b", "c", "d", "e", "f", "g", "h">>
RANK_NAMES == <<"1", "2", "3", "4", "5", "6", "7", "8">>
PIECE_SYMBOLS == <<"p", "n", "b", "r", "q", "k">>

Range(s) == {s[i] : i \in DOMAIN s}
IndexOf(s, x) == CHOOSE i \in DOMAIN s : s[i] = x

\* chess.square(file, rank), both counted from 0
Square(f, r) == 8 * r + f
SquareOfName(fc, rc) == Square(IndexOf(FILE_NAMES, fc) - 1, IndexOf(RANK_NAMES, rc) - 1)

\* request.json.get('move') of a body without the key
None == <<"None">>
NoPromotion == "-"
NullMove == [from_square |-> 0, to_square |-> 0, promotion |-> NoPromotion]
ParseFailure == [ok |-> FALSE, move |-> NullMove]

\* chess.Move.from_uci: a ValueError is ParseFailure
from_uci(uci) ==
    IF uci = <<"0", "0", "0", "0">> THEN [ok |-> TRUE, move |-> NullMove]
    ELSE IF Len(uci) \in {4, 5} THEN
        IF /\ uci[1] \in Range(FILE_NAMES) /\ uci[2] \in Range(RANK_NAMES)
           /\ uci[3] \in Range(FILE_NAMES) /\ uci[4] \in Range(RANK_NAMES)
           /\ (Len(uci) = 5 => uci[5] \in Range(PIECE_SYMBOLS))
        THEN LET f == SquareOfName(uci[1], uci[2])
                 t == SquareOfName(uci[3], uci[4])
             IN IF f = t THEN ParseFailure
                ELSE [ok |-> TRUE,
                      move |-> [from_square |-> f, to_square |-> t,
                                promotion |-> IF Len(uci) = 5 THEN uci[5] ELSE NoPromotion]]
        ELSE ParseFailure
    ELSE ParseFailure

\* Move.uci() of a move of the small board
uci_of(f, t) ==
    <<"a", RANK_NAMES[(f \div 8) + 1], "a", RANK_NAMES[(t \div 8) + 1]>>

\* ---------------------------------------------------- rules engine: board
BoardSquares == {Square(0, r - 1) : r \in 1..BoardLen}
Empty == "."
PieceOf(color) == IF color = WHITE THEN "P" ELSE "p"

\* chess.Board(): two white pieces on the first two ranks, two black on the last two
StartBoard ==
    [sq |-> [s \in BoardSquares |->
                IF s \in {Square(0, 0), Square(0, 1)} THEN "P"
                ELSE IF s \in {Square(0, BoardLen - 2), Square(0, BoardLen - 1)} THEN "p"
                ELSE Empty],
     turn |-> WHITE,
     halfmove_clock |-> 0]

HasPieces(b, color) == \E s \in BoardSquares : b.sq[s] = PieceOf(color)

\* board.legal_moves
legal_moves(b) ==
    {[from_square |-> f, to_square |-> t, promotion |-> NoPromotion] :
        <<f, t>> \in {<<f, t>> \in BoardSquares \X BoardSquares :
                        /\ b.sq[f] = PieceOf(b.turn)
                        /\ t \in {f - 8, f + 8}
                        /\ b.sq[t] # PieceOf(b.turn)}}

\* board.is_capture(move): the target square holds a piece of the side not to move
is_capture(b, m) ==
    /\ m.to_square \in BoardSquares
    /\ b.sq[m.to_square] = PieceOf(~b.turn)

\* board.push(move): moves the piece, resets or advances the clock, swaps the turn
push(b, m) ==
    [sq |-> [b.sq EXCEPT ![m.from_square] = Empty, ![m.to_square] = b.sq[m.from_square]],
     turn |-> ~b.turn,
     halfmove_clock |-> IF is_capture(b, m) THEN 0 ELSE b.halfmove_clock + 1]

\* board.is_game_over()
is_game_over(b) ==
    \/ ~HasPieces(b, b.turn)
    \/ b.halfmove_clock >= DrawClock

\* board.result()
board_result(b) ==
    IF ~HasPieces(b, b.turn) THEN (IF b.turn = WHITE THEN "0-1" ELSE "1-0")
    ELSE IF b.halfmove_clock >= DrawClock THEN "1/2-1/2"
    ELSE "*"

\* board.fen()
fen(b) ==
    <<[r \in 1..BoardLen |-> b.sq[Square(0, r - 1)]],
      IF b.turn = WHITE THEN "w" ELSE "b",
      b.halfmove_clock>>

\* ------------------------------------------------------------ the backend
\* a new game that starts with the bonus allowance
InitialMovesLeftBonus == 1 + 1

InitialMovesLeft == 1

\* the plural used for every count
get_status_message_plural(b, moves) ==
    IF is_game_over(b) THEN
        LET r == board_result(b)
        IN IF r = "1-0" THEN <<"Game Over: White wins!">>
           ELSE IF r = "0-1" THEN <<"Game Over: Black wins!">>
           ELSE IF r = "1/2-1/2" THEN <<"Game Over: Draw!">>
           ELSE <<"Game Over! ", r>>
    ELSE <<IF b.turn = WHITE THEN "White" ELSE "Black", " to move (", moves,
           "moves", " left)">>

get_status_message(b, moves) ==
    IF is_game_over(b) THEN
        LET r == board_result(b)
        IN IF r = "1-0" THEN <<"Game Over: White wins!">>
           ELSE IF r = "0-1" THEN <<"Game Over: Black wins!">>
           ELSE IF r = "1/2-1/2" THEN <<"Game Over: Draw!">>
           ELSE <<"Game Over! ", r>>
    ELSE <<IF b.turn = WHITE THEN "White" ELSE "Black", " to move (", moves,
           IF moves = 1 THEN "move" ELSE "moves", " left)">>

NoResult == [kind |-> "none"]

\* the dictionary get_game_state returns
Snapshot(b, moves) ==
    [kind |-> "state",
     fen |-> fen(b),
     isGameOver |-> is_game_over(b),
     statusMessage |-> get_status_message(b, moves)]

ErrorResponse(message, token) ==
    [kind |-> "error", error |-> message, token |-> token, status |-> 400]

\* `not move_uci`
Falsy(move_uci) == move_uci = None \/ move_uci = <<>>

\* the token tested before the game-over state
PrecheckMissingFirst(b, move_uci) ==
    IF Falsy(move_uci) THEN "Move not provided"
    ELSE IF is_game_over(b) THEN "Game is over"
    ELSE IF ~from_uci(move_uci).ok THEN "Invalid move format"
    ELSE IF from_uci(move_uci).move \notin legal_moves(b) THEN "Illegal move"
    ELSE "ok"

\* a token that does not parse reported like a move that is not legal
PrecheckNoFormatError(b, move_uci) ==
    IF is_game_over(b) THEN "Game is over"
    ELSE IF Falsy(move_uci) THEN "Move not provided"
    ELSE IF \/ ~from_uci(move_uci).ok
            \/ from_uci(move_uci).move \notin legal_moves(b) THEN "Illegal move"
    ELSE "ok"

\* the tests of make_move, in the order the code makes them
Precheck(b, move_uci) ==
    IF is_game_over(b) THEN "Game is over"
    ELSE IF Falsy(move_uci) THEN "Move not provided"
    ELSE IF ~from_uci(move_uci).ok THEN "Invalid move format"
    ELSE IF from_uci(move_uci).move \notin legal_moves(b) THEN "Illegal move"
    ELSE "ok"

\* the message of a failed test; only two of them carry the token
PrecheckError(outcome, move_uci) ==
    ErrorResponse(outcome,
                  IF outcome \in {"Illegal move", "Invalid move format"}
                  THEN move_uci ELSE None)

\* the decrement left out
DecrementSkipped(moves) == moves

Decrement(moves) == moves - 1

\* a re-arm test that is never true of a counter that stops at 0
OutOfMovesNever(moves) == moves < 0

OutOfMoves(moves) == moves = 0

\* the next mover always given the single move
RearmNoBonus(moves, captured) ==
    IF OutOfMoves(moves) THEN 1 ELSE moves

\* the bonus counted as two moves on top of the standard one
RearmExtraBonus(moves, captured) ==
    IF OutOfMoves(moves) THEN (IF captured THEN 1 + 2 ELSE 1) ELSE moves

Rearm(moves, captured) ==
    IF OutOfMoves(moves) THEN (IF captured THEN 2 ELSE 1) ELSE moves

\* a re-entrant lock (threading.RLock): the holder acquires it again
CanAcquireReentrant(owner, t) == owner = NoThread \/ owner = t

\* the handlers run without mutual exclusion: the lock never blocks
CanAcquireAlways(owner, t) == TRUE

\* threading.Lock.acquire by thread t: blocks while anyone, t included, holds it
CanAcquire(owner, t) == owner = NoThread

\* ---------------------------------------------------------------- requests
Tokens ==
    {None, <<>>, <<"z", "z", "9", "9">>, <<"e", "2", "e", "4">>,
     <<"a", "2", "a", "3", "q">>}
    \cup {uci_of(f, t) : <<f, t>> \in {<<f, t>> \in BoardSquares \X BoardSquares :
                                          t \in {f - 8, f + 8}}}

NoReq == [op |-> "none", move |-> None]
NoLoc == [move |-> NullMove, is_capture |-> FALSE]
NoNg == [n |-> 0, prev |-> NoResult, cur |-> NoResult]

\* the threads whose call is in flight together with another one, once t issues a request
Overlapping(t) ==
    IF \E u \in Threads \ {t} : pc[u] # "idle"
    THEN (conc \cup {t}) \cup {u \in Threads \ {t} : pc[u] # "idle"}
    ELSE conc \ {t}

\* ------------------------------------------------------------------- Init
Init ==
    /\ board = StartBoard
    /\ moves_left = InitialMovesLeft
    /\ lock = NoThread
    /\ pc = [t \in Threads |-> "idle"]
    /\ req = [t \in Threads |-> NoReq]
    /\ loc = [t \in Threads |-> NoLoc]
    /\ result = [t \in Threads |-> NoResult]
    /\ calls = 0
    /\ pre = [board |-> StartBoard, moves_left |-> InitialMovesLeft]
    /\ ng = NoNg
    /\ conc = {}

\* make_move on an accepted move, start to end: capture test, push, decrement, re-arm
MoveUpdate(s, m) ==
    [board |-> push(s.board, m),
     moves_left |-> Rearm(Decrement(s.moves_left), is_capture(s.board, m))]

\* MatchState after at most k accepted moves played from a new game
RECURSIVE PlayReach(_)
PlayReach(k) ==
    IF k = 0 THEN {[board |-> StartBoard, moves_left |-> InitialMovesLeft]}
    ELSE LET R == PlayReach(k - 1)
         IN R \cup UNION {{MoveUpdate(s, m) : m \in legal_moves(s.board)} :
                              s \in {x \in R : ~is_game_over(x.board)}}

\* the handlers entered with the match anywhere in legal play (lock free, no request)
InitPlay ==
    /\ \E s \in PlayReach(MaxPlies) :
          /\ board = s.board
          /\ moves_left = s.moves_left
          /\ pre = s
    /\ lock = NoThread
    /\ pc = [t \in Threads |-> "idle"]
    /\ req = [t \in Threads |-> NoReq]
    /\ loc = [t \in Threads |-> NoLoc]
    /\ result = [t \in Threads |-> NoResult]
    /\ calls = 0
    /\ ng = NoNg
    /\ conc = {}

\* ---------------------------------------------------------------- actions
\* a request arrives on thread t
\* the GET route wired to the new-game handler
request_get_game_state_as_new(t) ==
    /\ pc[t] = "idle" /\ calls < MaxCalls
    /\ calls' = calls + 1
    /\ conc' = Overlapping(t)
    /\ req' = [req EXCEPT ![t] = [op |-> "get", move |-> None]]
    /\ pc' = [pc EXCEPT ![t] = "ig_lock"]
    /\ result' = [result EXCEPT ![t] = NoResult]
    /\ ng' = NoNg
    /\ UNCHANGED <<board, moves_left, lock, loc, pre>>

request_get_game_state(t) ==
    /\ pc[t] = "idle" /\ calls < MaxCalls
    /\ calls' = calls + 1
    /\ conc' = Overlapping(t)
    /\ req' = [req EXCEPT ![t] = [op |-> "get", move |-> None]]
    /\ pc' = [pc EXCEPT ![t] = "gs_lock"]
    /\ result' = [result EXCEPT ![t] = NoResult]
    /\ ng' = NoNg
    /\ UNCHANGED <<board, moves_left, lock, loc, pre>>

request_new_game(t) ==
    /\ pc[t] = "idle" /\ calls < MaxCalls
    /\ calls' = calls + 1
    /\ conc' = Overlapping(t)
    /\ req' = [req EXCEPT ![t] = [op |-> "new", move |-> None]]
    /\ pc' = [pc EXCEPT ![t] = "ig_lock"]
    /\ result' = [result EXCEPT ![t] = NoResult]
    /\ UNCHANGED <<board, moves_left, lock, loc, pre, ng>>

request_make_move(t, move_uci) ==
    /\ pc[t] = "idle" /\ calls < MaxCalls
    /\ calls' = calls + 1
    /\ conc' = Overlapping(t)
    /\ req' = [req EXCEPT ![t] = [op |-> "move", move |-> move_uci]]
    /\ pc' = [pc EXCEPT ![t] = "mm_lock"]
    /\ result' = [result EXCEPT ![t] = NoResult]
    /\ ng' = NoNg
    /\ UNCHANGED <<board, moves_left, lock, loc, pre>>

\* initialize_game: with game_lock
initialize_game_lock(t) ==
    /\ pc[t] = "ig_lock"
    /\ CanAcquire(lock, t)
    /\ lock' = t
    /\ pc' = [pc EXCEPT ![t] = "ig_body"]
    /\ UNCHANGED <<board, moves_left, req, loc, result, calls, pre, ng, conc>>

\* initialize_game: the body, the release, and new_game's call of get_game_state
initialize_game_body(t) ==
    /\ pc[t] = "ig_body"
    /\ board' = StartBoard
    /\ moves_left' = InitialMovesLeft
    /\ lock' = NoThread
    /\ pc' = [pc EXCEPT ![t] = "gs_lock"]
    /\ UNCHANGED <<req, loc, result, calls, pre, ng, conc>>

\* get_game_state: with game_lock
get_game_state_lock(t) ==
    /\ pc[t] = "gs_lock"
    /\ CanAcquire(lock, t)
    /\ lock' = t
    /\ pc' = [pc EXCEPT ![t] = "gs_body"]
    /\ ng' = IF req[t].op = "new" THEN ng ELSE NoNg
    /\ UNCHANGED <<board, moves_left, req, loc, result, calls, pre, conc>>

\* get_game_state: the body, the release and the return to the client
get_game_state_body(t) ==
    /\ pc[t] = "gs_body"
    /\ result' = [result EXCEPT ![t] = Snapshot(board, moves_left)]
    /\ lock' = NoThread
    /\ pc' = [pc EXCEPT ![t] = "idle"]
    /\ ng' = IF req[t].op = "new"
             THEN [n |-> IF ng.n < 2 THEN ng.n + 1 ELSE 2,
                   prev |-> ng.cur,
                   cur |-> Snapshot(board, moves_left)]
             ELSE NoNg
    /\ UNCHANGED <<board, moves_left, req, loc, calls, pre, conc>>

\* make_move: with game_lock
make_move_lock(t) ==
    /\ pc[t] = "mm_lock"
    /\ CanAcquire(lock, t)
    /\ lock' = t
    /\ pc' = [pc EXCEPT ![t] = "mm_check"]
    /\ pre' = [board |-> board, moves_left |-> moves_left]
    /\ ng' = NoNg
    /\ UNCHANGED <<board, moves_left, req, loc, result, calls, conc>>

\* make_move: the four tests; a failed one returns its error and releases the lock
make_move_check(t) ==
    /\ pc[t] = "mm_check"
    /\ LET outcome == Precheck(board, req[t].move)
       IN IF outcome = "ok"
          THEN /\ loc' = [loc EXCEPT ![t] =
                             [move |-> from_uci(req[t].move).move,
                              is_capture |-> is_capture(board, from_uci(req[t].move).move)]]
               /\ pc' = [pc EXCEPT ![t] = "mm_push"]
               /\ UNCHANGED <<lock, result>>
          ELSE /\ result' = [result EXCEPT ![t] = PrecheckError(outcome, req[t].move)]
               /\ lock' = NoThread
               /\ pc' = [pc EXCEPT ![t] = "idle"]
               /\ UNCHANGED loc
    /\ UNCHANGED <<board, moves_left, req, calls, pre, ng, conc>>

\* make_move: board.push(move)
make_move_push(t) ==
    /\ pc[t] = "mm_push"
    /\ board' = push(board, loc[t].move)
    /\ pc' = [pc EXCEPT ![t] = "mm_dec"]
    /\ UNCHANGED <<moves_left, lock, req, loc, result, calls, pre, ng, conc>>

\* make_move: game_state['moves_left'] -= 1
make_move_decrement(t) ==
    /\ pc[t] = "mm_dec"
    /\ moves_left' = Decrement(moves_left)
    /\ pc' = [pc EXCEPT ![t] = "mm_rearm"]
    /\ UNCHANGED <<board, lock, req, loc, result, calls, pre, ng, conc>>

\* make_move: the re-arm, then return get_game_state() with game_lock still held
make_move_rearm(t) ==
    /\ pc[t] = "mm_rearm"
    /\ moves_left' = Rearm(moves_left, loc[t].is_capture)
    /\ pc' = [pc EXCEPT ![t] = "gs_lock"]
    /\ UNCHANGED <<board, lock, req, loc, result, calls, pre, ng, conc>>

Step(t) ==
    \/ initialize_game_lock(t)
    \/ initialize_game_body(t)
    \/ get_game_state_lock(t)
    \/ get_game_state_body(t)
    \/ make_move_lock(t)
    \/ make_move_check(t)
    \/ make_move_push(t)
    \/ make_move_decrement(t)
    \/ make_move_rearm(t)

Request(t) ==
    \/ request_get_game_state(t)
    \/ request_new_game(t)
    \/ \E move_uci \in Tokens : request_make_move(t, move_uci)

Next == \E t \in Threads : Request(t) \/ Step(t)

Spec == Init /\ [][Next]_vars

\* every thread that can take a step is eventually scheduled
FairSpec == Spec /\ \A t \in Threads : WF_vars(Step(t))

\* the same handlers, entered from every state of legal play
SpecPlay == InitPlay /\ [][Next]_vars

\* ------------------------------------------------------------------ claims
ZZ99 == <<"z", "z", "9", "9">>
E2E4 == <<"e", "2", "e", "4">>

\* thread t's make_move has applied an accepted move and is about to build its snapshot
Accepted(t) == pc[t] = "gs_lock" /\ req[t].op = "move"

AcceptedMove(t) == from_uci(req[t].move).move

\* thread t takes a step of its own
Moves(t) == pc'[t] # pc[t]

\* thread t's call has ended with the error `message`
Failed(t, message) ==
    /\ pc[t] = "idle"
    /\ result[t].kind = "error"
    /\ result[t].error = message

\* the snapshot of a new game, written out
StartSnapshot ==
    [kind |-> "state",
     fen |-> <<[r \in 1..BoardLen |->
                  IF r <= 2 THEN "P" ELSE IF r >= BoardLen - 1 THEN "p" ELSE "."],
               "w", 0>>,
     isGameOver |-> FALSE,
     statusMessage |-> <<"White", " to move (", 1, "move", " left)">>]

\* C1: a make_move call whose move passed the four tests eventually returns the
\* updated snapshot to its caller.
C1_AcceptedMoveReturns ==
    \A t \in Threads :
        (pc[t] = "mm_push") ~> (pc[t] = "idle" /\ result[t].kind = "state")

C3_CaptureBonus ==
    \A t \in Threads :
        (Accepted(t) /\ pre.moves_left = 1) =>
            /\ board.turn = ~pre.board.turn
            /\ moves_left =
                 IF pre.board.sq[AcceptedMove(t).to_square] = PieceOf(~pre.board.turn)
                 THEN 2 ELSE 1

C3_Witness ==
    \E t \in Threads :
        /\ Accepted(t) /\ pre.moves_left = 1
        /\ pre.board.sq[AcceptedMove(t).to_square] = PieceOf(~pre.board.turn)
        /\ moves_left = 2

\* C4: whenever no operation holds the lock and the game is not over, moves_left >= 1.
C4_MovesLeftPositive ==
    (lock = NoThread /\ ~is_game_over(board)) => moves_left >= 1

C4_Witness ==
    /\ lock = NoThread /\ ~is_game_over(board) /\ moves_left = 2
    /\ board # StartBoard
    /\ \E t \in Threads : pc[t] = "idle" /\ result[t].kind # "none"

\* C5: a make_move call that fails leaves board and moves_left as they were, and a
\* call that changes them has pushed the move, decremented the counter and re-armed
\* it: no call stops after some of the three steps.
C5_AllOrNothing ==
    /\ [][\A t \in Threads :
            (pc[t] = "mm_check" /\ Moves(t) /\ pc'[t] = "idle") =>
                /\ result'[t].kind = "error"
                /\ board' = board /\ moves_left' = moves_left
                /\ board' = pre.board /\ moves_left' = pre.moves_left]_vars
    /\ [](\A t \in Threads :
            /\ (req[t].op = "move" /\ pc[t] \in {"mm_lock", "mm_check", "idle"}
                /\ lock = t) => (board = pre.board /\ moves_left = pre.moves_left)
            /\ Accepted(t) =>
                /\ board = push(pre.board, AcceptedMove(t))
                /\ moves_left =
                     IF pre.moves_left - 1 = 0
                     THEN (IF is_capture(pre.board, AcceptedMove(t)) THEN 2 ELSE 1)
                     ELSE pre.moves_left - 1)

C5_Witness ==
    \E t, u \in Threads :
        /\ Failed(t, "Illegal move")
        /\ Accepted(u) /\ pre.moves_left = 2 /\ moves_left = 1

\* C6: on a position that is game over make_move answers "Game is over" whatever the
\* token, and changes nothing; once the move that ended the game has finished its
\* update, a finished game changes only by a new game.
C6_GameOverRejects ==
    [][/\ \A t \in Threads :
            (pc[t] = "mm_check" /\ Moves(t) /\ is_game_over(board)) =>
                /\ result'[t] = ErrorResponse("Game is over", None)
                /\ pc'[t] = "idle"
                /\ board' = board /\ moves_left' = moves_left
       /\ (/\ is_game_over(board)
           /\ \A t \in Threads : pc[t] \notin {"mm_dec", "mm_rearm"}
           /\ <<board, moves_left>>' # <<board, moves_left>>) =>
                /\ \E t \in Threads : pc[t] = "ig_body" /\ req[t].op = "new"
                /\ board' = StartBoard]_vars

C6_Witness ==
    /\ is_game_over(board)
    /\ \E t, u \in Threads :
        /\ t # u
        /\ Failed(t, "Game is over") /\ req[t].move = None
        /\ Failed(u, "Game is over") /\ from_uci(req[u].move).move \in legal_moves(board)

\* C7: make_move tests game over, missing token, unparsable token, illegal move in
\* that order and reports the first that fails; the last two carry the token.
C7_ErrorOrder ==
    [][\A t \in Threads :
         (pc[t] = "mm_check" /\ Moves(t)) =>
            LET tok == req[t].move
                absent == tok = None \/ tok = <<>>
            IN /\ is_game_over(board) =>
                    (result'[t].kind = "error" /\ result'[t].error = "Game is over")
               /\ (~is_game_over(board) /\ absent) =>
                    (result'[t].kind = "error" /\ result'[t].error = "Move not provided")
               /\ (~is_game_over(board) /\ ~absent /\ ~from_uci(tok).ok) =>
                    result'[t] = ErrorResponse("Invalid move format", tok)
               /\ (~is_game_over(board) /\ ~absent /\ from_uci(tok).ok
                   /\ from_uci(tok).move \notin legal_moves(board)) =>
                    result'[t] = ErrorResponse("Illegal move", tok)]_vars

C7_Witness ==
    /\ ~is_game_over(board)
    /\ \E t, u \in Threads :
        /\ Failed(t, "Invalid move format") /\ result[t].token = ZZ99
        /\ Failed(u, "Illegal move") /\ result[u].token = E2E4

\* C8: new_game sets the board to the starting position and moves_left to 1 from
\* every state, and two new_game calls with nothing in between return equal snapshots.
C8_NewGameResets ==
    /\ [][\A t \in Threads :
            (pc[t] = "ig_body" /\ Moves(t)) =>
                /\ board'.sq = [s \in BoardSquares |->
                                  IF s \in {0, 8} THEN "P"
                                  ELSE IF s \in {8 * (BoardLen - 2), 8 * (BoardLen - 1)}
                                       THEN "p" ELSE "."]
                /\ board'.turn = WHITE /\ board'.halfmove_clock = 0
                /\ moves_left' = 1]_vars
    /\ [](ng.n >= 2 => ng.cur = ng.prev)

C8_Witness ==
    /\ ng.n = 2 /\ ng.cur = ng.prev /\ ng.cur.kind = "state"
    /\ pre.moves_left = 2 /\ ~is_game_over(pre.board)

\* C9: every snapshot a new_game call returns is the starting snapshot, whatever
\* other callers do meanwhile.
C9_NewGameSnapshot ==
    \A t \in Threads :
        (req[t].op = "new" /\ pc[t] = "idle") => result[t] = StartSnapshot

C9_Witness ==
    \E t, u \in Threads :
        /\ t # u /\ {t, u} \subseteq conc
        /\ req[t].op = "new" /\ pc[t] = "idle" /\ result[t] = StartSnapshot
        /\ req[u].op = "move" /\ pc[u] # "mm_lock"

\* an operation between its first and its last access to game_state
InProgress(t) ==
    \/ pc[t] \in {"ig_body", "gs_body", "mm_check", "mm_push", "mm_dec", "mm_rearm"}
    \/ pc[t] = "gs_lock" /\ req[t].op \in {"new", "move"}

\* C10: each operation holds the lock from its first access to game_state until its
\* result is computed, so no two operations are in progress together.
C10_LockHeldThroughout ==
    \A t \in Threads :
        InProgress(t) =>
            /\ lock = t
            /\ \A u \in Threads \ {t} : ~InProgress(u)

\* thread u has pushed its move and not yet finished the update of moves_left
MidUpdate(u) == pc[u] \in {"mm_dec", "mm_rearm"}

\* C11: no snapshot get_game_state returns for a GET request shows the state between
\* make_move's push and the end of its update of moves_left.
C11_NoIntermediateSnapshot ==
    [][\A t \in Threads :
         (pc[t] = "gs_body" /\ req[t].op = "get" /\ Moves(t)) =>
            /\ \A u \in Threads \ {t} : ~MidUpdate(u)
            /\ moves_left \in {1, 2}
            /\ result'[t].kind = "state"
            /\ result'[t].fen[1] = [r \in 1..BoardLen |-> board.sq[8 * (r - 1)]]]_vars

C11_Witness ==
    \E t, u \in Threads :
        /\ t # u /\ {t, u} \subseteq conc
        /\ req[t].op = "get" /\ pc[t] = "idle" /\ result[t].kind = "state"
        /\ Accepted(u)
        /\ result[t] = Snapshot(pre.board, pre.moves_left)

\* C12: a thread that holds the lock eventually releases it, and every GET and
\* new-game request eventually returns its snapshot.
C12_LockReleased ==
    \A t \in Threads :
        /\ (lock = t) ~> (lock # t)
        /\ (req[t].op \in {"get", "new"} /\ pc[t] # "idle")
              ~> (pc[t] = "idle" /\ result[t].kind = "state")

\* C13: no step of a GET request changes board or moves_left, game over or not.
C13_GetStateReadOnly ==
    [][\A t \in Threads :
         (req[t].op = "get" /\ Moves(t)) =>
            (board' = board /\ moves_left' = moves_left)]_vars

C13_Witness ==
    \E t \in Threads :
        /\ req[t].op = "get" /\ pc[t] = "idle" /\ result[t].kind = "state"
        /\ result[t].isGameOver
        /\ is_game_over(board) /\ board # StartBoard

\* the message the claim describes, for board b and counter moves
ExpectedStatus(b, moves) ==
    IF \A s \in BoardSquares : b.sq[s] # (IF b.turn = WHITE THEN "P" ELSE "p")
    THEN (IF b.turn = WHITE THEN <<"Game Over: Black wins!">>
          ELSE <<"Game Over: White wins!">>)
    ELSE IF b.halfmove_clock >= DrawClock THEN <<"Game Over: Draw!">>
    ELSE <<IF b.turn = WHITE THEN "White" ELSE "Black", " to move (", moves,
           IF moves = 1 THEN "move" ELSE "moves", " left)">>

\* C14: the status message of every snapshot is determined by board and moves_left:
\* side to move and count with "move" exactly for 1 while the game goes on, the
\* outcome alone when it is over.
C14_StatusMessage ==
    [][\A t \in Threads :
         (pc[t] = "gs_body" /\ Moves(t)) =>
            /\ result'[t].kind = "state"
            /\ result'[t].statusMessage = ExpectedStatus(board, moves_left)
            /\ result'[t].isGameOver = (Len(result'[t].statusMessage) # 5)]_vars

C14_Witness ==
    \E t, u \in Threads :
        /\ t # u /\ pc[t] = "idle" /\ pc[u] = "idle"
        /\ result[t].kind = "state" /\ result[u].kind = "state"
        /\ Len(result[t].statusMessage) = 5
        /\ result[t].statusMessage[3] = 2 /\ result[t].statusMessage[4] = "moves"
        /\ Len(result[u].statusMessage) = 5
        /\ result[u].statusMessage[3] = 1 /\ result[u].statusMessage[4] = "move"

\* thread t is between make_move's legality test and the end of its update
Updating(t) == pc[t] \in {"mm_push", "mm_dec", "mm_rearm"}

\* C15: a move is pushed on the position on which it was found legal, with the
\* capture status of that position, and nothing else changes board or moves_left
\* between the test and the end of the update; two make_move calls never update
\* together.
C15_MoveAppliedWhereLegal ==
    /\ [][\A t \in Threads :
            /\ (pc[t] = "mm_push" /\ Moves(t)) =>
                  /\ loc[t].move \in legal_moves(board)
                  /\ ~is_game_over(board)
                  /\ loc[t].is_capture = (board.sq[loc[t].move.to_square] = PieceOf(~board.turn))
                  /\ loc[t].move = from_uci(req[t].move).move
            /\ (Updating(t) /\ <<board, moves_left>>' # <<board, moves_left>>) => Moves(t)]_vars
    /\ [](\A t, u \in Threads :
            (t # u /\ (Updating(t) \/ Accepted(t))) => ~(Updating(u) \/ Accepted(u)))

C15_Witness ==
    \E t, u \in Threads :
        /\ t # u /\ {t, u} \subseteq conc
        /\ req[t].op = "move" /\ req[u].op = "move" /\ req[t].move = req[u].move
        /\ pre.board = StartBoard
        /\ Accepted(t) /\ pc[u] = "mm_lock"

\* C16: whenever no operation holds the lock, moves_left is 1 or 2, game over or not.
C16_MovesLeftOneOrTwo ==
    lock = NoThread => moves_left \in {1, 2}

C16_Witness ==
    /\ lock = NoThread /\ is_game_over(board) /\ moves_left = 2
    /\ \E t \in Threads : pc[t] = "idle" /\ result[t].kind = "state"

====
